---- MODULE Spec2Model ----
(***************************************************************************)
(* Model of src/data/populate_db.py: the load of three CSV tables           *)
(* (df0, df1, df2) into the five tables Products, Locations, Drivers,       *)
(* Shipments and ShipmentLineItems of a fresh SQLite store.                 *)
(*                                                                          *)
(* A blank CSV cell is read by pandas as NaN and bound by sqlite3 as NULL.  *)
(* Blank names are the empty string NaNName; a blank shipment identifier    *)
(* is the number NaN; a shipment identifier cell holding text that is no    *)
(* integer is the number NonInt.                                            *)
(***************************************************************************)
EXTENDS Integers, Sequences, FiniteSets

VARIABLES df0, df1, df2, pc, Products, Locations, Drivers, Shipments,
          ShipmentLineItems, i2, i1, log

vars == <<df0, df1, df2, pc, Products, Locations, Drivers, Shipments,
          ShipmentLineItems, i2, i1, log>>

-----------------------------------------------------------------------------
(* Bounds of the model and the cell values the input tables are drawn from. *)

MaxRowsB == 2

MaxRowsC == 2

NaNName == ""

NaN == -1

NonInt == -2

ShipIds == {1, 100}

RowA(o, d, p, t, q, dr) ==
    [origin_warehouse |-> o, destination_store |-> d, product |-> p,
     on_time |-> t, product_quantity |-> q, driver_identifier |-> dr]

RowB(s, p, t) == [shipment_identifier |-> s, product |-> p, on_time |-> t]

RowC(s, o, d, dr) ==
    [shipment_identifier |-> s, origin_warehouse |-> o,
     destination_store |-> d, driver_identifier |-> dr]

TablesA ==
    { << >>,
      << RowA("WH1", "ST1", "Widget", "Yes", 5, "D1") >>,
      << RowA("WH3", "ST1", "Gizmo", "No", 3, "D3") >>,
      << RowA("WH1", "ST1", "Widget", "Yes", 5, NaNName) >>,
      << RowA("WH1", "ST1", NaNName, "Yes", 5, "D1") >> }

RowsB ==
    { RowB(s, "Widget", "Yes") : s \in {1, 100} }
    \cup { RowB(s, "Gadget", "No") : s \in {100, NaN} }

RowsC ==
    { RowC(s, "WH1", "ST1", "D1") : s \in {1, 100, NaN} }
    \cup { RowC(s, "WH2", "ST2", "D2") : s \in {1, 100, NonInt} }

BoundedSeq(S, n) == UNION { [1..k -> S] : k \in 0..n }

ProductNames == {"Widget", "Gadget", "Gizmo"}

LocationNames == {"WH1", "WH2", "WH3", "ST1", "ST2"}

DriverNames == {"D1", "D2", "D3"}

-----------------------------------------------------------------------------
(* pandas helpers.                                                          *)

RECURSIVE unique(_)
\* Series.unique(): the distinct values in order of first appearance
\* (NaN counts as one value).
unique(s) ==
    IF s = << >> THEN << >>
    ELSE LET front == unique(SubSeq(s, 1, Len(s) - 1))
             last  == s[Len(s)]
         IN IF \E k \in 1..Len(front) : front[k] = last
            THEN front ELSE Append(front, last)

RECURSIVE drop_duplicates(_)
\* DataFrame.drop_duplicates(subset=['shipment_identifier']): keeps the first
\* row of every shipment_identifier, in row order.
drop_duplicates(df) ==
    IF df = << >> THEN << >>
    ELSE LET front == drop_duplicates(SubSeq(df, 1, Len(df) - 1))
             last  == df[Len(df)]
         IN IF \E k \in 1..Len(front) :
                  front[k].shipment_identifier = last.shipment_identifier
            THEN front ELSE Append(front, last)

Column(df, c) == [k \in 1..Len(df) |-> df[k][c]]

all_products == unique(Column(df0, "product") \o Column(df1, "product"))

all_locations_df0_only ==
    unique(Column(df0, "origin_warehouse") \o Column(df0, "destination_store"))

all_locations ==
    unique(Column(df0, "origin_warehouse") \o Column(df0, "destination_store")
           \o Column(df2, "origin_warehouse") \o Column(df2, "destination_store"))

all_drivers ==
    unique(Column(df0, "driver_identifier") \o Column(df2, "driver_identifier"))

unique_shipments_df2 == drop_duplicates(df2)

RECURSIVE drop_duplicate_items(_)
drop_duplicate_items(df) ==
    IF df = << >> THEN << >>
    ELSE LET front == drop_duplicate_items(SubSeq(df, 1, Len(df) - 1))
             last  == df[Len(df)]
         IN IF \E k \in 1..Len(front) :
                  /\ front[k].shipment_identifier = last.shipment_identifier
                  /\ front[k].product = last.product
            THEN front ELSE Append(front, last)

line_items_deduplicated == drop_duplicate_items(df1)

\* The rows the line-item loop iterates over: df1.iterrows(), every row.
line_item_rows == df1

-----------------------------------------------------------------------------
(* The store.  An AUTOINCREMENT table is its rows and its sqlite_sequence   *)
(* counter; Shipments is its rows.                                          *)

EmptyTable == [rows |-> {}, seq |-> 0]

get_or_insert_product_always_inserts(tbl, product_name) ==
    IF product_name = NaNName
    THEN [err |-> TRUE, id |-> 0, tbl |-> tbl]
    ELSE [err |-> FALSE, id |-> tbl.seq + 1,
          tbl |-> [rows |-> tbl.rows \cup {[ProductID |-> tbl.seq + 1,
                                            ProductName |-> product_name]},
                   seq  |-> tbl.seq + 1]]

\* SELECT by name (NULL equals nothing); a hit returns its ProductID, a miss
\* inserts: NULL breaks NOT NULL, a present name breaks UNIQUE, otherwise the
\* new row takes the next AUTOINCREMENT value, which is returned.
get_or_insert_product(tbl, product_name) ==
    LET result == { r \in tbl.rows :
                      product_name # NaNName /\ r.ProductName = product_name }
    IN IF result # {}
       THEN [err |-> FALSE,
             id  |-> (CHOOSE r \in result :
                        \A q \in result : r.ProductID <= q.ProductID).ProductID,
             tbl |-> tbl]
       ELSE IF \/ product_name = NaNName
               \/ \E r \in tbl.rows : r.ProductName = product_name
            THEN [err |-> TRUE, id |-> 0, tbl |-> tbl]
            ELSE [err |-> FALSE, id |-> tbl.seq + 1,
                  tbl |-> [rows |-> tbl.rows \cup
                                      {[ProductID |-> tbl.seq + 1,
                                        ProductName |-> product_name]},
                           seq  |-> tbl.seq + 1]]

get_or_insert_location_returns_lastrowid(tbl, location_name) ==
    LET result == { r \in tbl.rows :
                      location_name # NaNName /\ r.LocationName = location_name }
    IN IF result # {}
       THEN [err |-> FALSE, id |-> tbl.seq, tbl |-> tbl]
       ELSE IF \/ location_name = NaNName
               \/ \E r \in tbl.rows : r.LocationName = location_name
            THEN [err |-> TRUE, id |-> 0, tbl |-> tbl]
            ELSE [err |-> FALSE, id |-> tbl.seq + 1,
                  tbl |-> [rows |-> tbl.rows \cup
                                      {[LocationID |-> tbl.seq + 1,
                                        LocationName |-> location_name]},
                           seq  |-> tbl.seq + 1]]

get_or_insert_location(tbl, location_name) ==
    LET result == { r \in tbl.rows :
                      location_name # NaNName /\ r.LocationName = location_name }
    IN IF result # {}
       THEN [err |-> FALSE,
             id  |-> (CHOOSE r \in result :
                        \A q \in result : r.LocationID <= q.LocationID).LocationID,
             tbl |-> tbl]
       ELSE IF \/ location_name = NaNName
               \/ \E r \in tbl.rows : r.LocationName = location_name
            THEN [err |-> TRUE, id |-> 0, tbl |-> tbl]
            ELSE [err |-> FALSE, id |-> tbl.seq + 1,
                  tbl |-> [rows |-> tbl.rows \cup
                                      {[LocationID |-> tbl.seq + 1,
                                        LocationName |-> location_name]},
                           seq  |-> tbl.seq + 1]]

get_or_insert_driver_forgets_row(tbl, driver_identifier) ==
    LET result == { r \in tbl.rows :
                      driver_identifier # NaNName
                      /\ r.DriverIdentifier = driver_identifier }
    IN IF result # {}
       THEN [err |-> FALSE,
             id  |-> (CHOOSE r \in result :
                        \A q \in result : r.DriverID <= q.DriverID).DriverID,
             tbl |-> tbl]
       ELSE IF \/ driver_identifier = NaNName
               \/ \E r \in tbl.rows : r.DriverIdentifier = driver_identifier
            THEN [err |-> TRUE, id |-> 0, tbl |-> tbl]
            ELSE [err |-> FALSE, id |-> tbl.seq + 1,
                  tbl |-> [rows |-> tbl.rows, seq |-> tbl.seq + 1]]

get_or_insert_driver(tbl, driver_identifier) ==
    LET result == { r \in tbl.rows :
                      driver_identifier # NaNName
                      /\ r.DriverIdentifier = driver_identifier }
    IN IF result # {}
       THEN [err |-> FALSE,
             id  |-> (CHOOSE r \in result :
                        \A q \in result : r.DriverID <= q.DriverID).DriverID,
             tbl |-> tbl]
       ELSE IF \/ driver_identifier = NaNName
               \/ \E r \in tbl.rows : r.DriverIdentifier = driver_identifier
            THEN [err |-> TRUE, id |-> 0, tbl |-> tbl]
            ELSE [err |-> FALSE, id |-> tbl.seq + 1,
                  tbl |-> [rows |-> tbl.rows \cup
                                      {[DriverID |-> tbl.seq + 1,
                                        DriverIdentifier |-> driver_identifier]},
                           seq  |-> tbl.seq + 1]]

RECURSIVE populate_products(_, _)
\* for product_name in all_products: get_or_insert_product(cursor, product_name)
\* The first failing call raises and ends the loop.
populate_products(tbl, names) ==
    IF names = << >> THEN [err |-> FALSE, tbl |-> tbl]
    ELSE LET r == get_or_insert_product(tbl, Head(names))
         IN IF r.err THEN [err |-> TRUE, tbl |-> tbl]
            ELSE populate_products(r.tbl, Tail(names))

RECURSIVE populate_locations(_, _)
populate_locations(tbl, names) ==
    IF names = << >> THEN [err |-> FALSE, tbl |-> tbl]
    ELSE LET r == get_or_insert_location(tbl, Head(names))
         IN IF r.err THEN [err |-> TRUE, tbl |-> tbl]
            ELSE populate_locations(r.tbl, Tail(names))

RECURSIVE populate_drivers(_, _)
populate_drivers(tbl, names) ==
    IF names = << >> THEN [err |-> FALSE, tbl |-> tbl]
    ELSE LET r == get_or_insert_driver(tbl, Head(names))
         IN IF r.err THEN [err |-> TRUE, tbl |-> tbl]
            ELSE populate_drivers(r.tbl, Tail(names))

\* PRAGMA foreign_keys of the connection populate_database opens: the pragma is
\* per connection, off by default, and only setup_database's connection sets it.
foreign_keys == FALSE

MaxShipmentID(rows) ==
    IF rows = {} THEN 0
    ELSE (CHOOSE r \in rows : \A q \in rows : q.ShipmentID <= r.ShipmentID).ShipmentID

insert_or_ignore_shipment_swaps_locations(rows, shipment_id, origin_loc_id, dest_loc_id, driver_id) ==
    IF shipment_id = NonInt
    THEN [err |-> TRUE, rows |-> rows]
    ELSE LET key == IF shipment_id = NaN THEN MaxShipmentID(rows) + 1
                    ELSE shipment_id
         IN IF \E r \in rows : r.ShipmentID = key
            THEN [err |-> FALSE, rows |-> rows]
            ELSE [err |-> FALSE,
                  rows |-> rows \cup
                             {[ShipmentID |-> key,
                               OriginLocationID |-> dest_loc_id,
                               DestinationLocationID |-> origin_loc_id,
                               DriverID |-> driver_id]}]

\* INSERT OR IGNORE INTO Shipments: text that is no integer is a datatype
\* mismatch in the INTEGER PRIMARY KEY (an IntegrityError, not ignored); NULL
\* takes the largest ShipmentID plus one; a ShipmentID already present is
\* ignored; foreign keys are looked at only when the pragma is on.
insert_or_ignore_shipment(rows, shipment_id, origin_loc_id, dest_loc_id, driver_id) ==
    IF shipment_id = NonInt
    THEN [err |-> TRUE, rows |-> rows]
    ELSE LET key == IF shipment_id = NaN THEN MaxShipmentID(rows) + 1
                    ELSE shipment_id
         IN IF \E r \in rows : r.ShipmentID = key
            THEN [err |-> FALSE, rows |-> rows]
            ELSE IF foreign_keys
                    /\ ~ /\ \E l \in Locations.rows : l.LocationID = origin_loc_id
                         /\ \E l \in Locations.rows : l.LocationID = dest_loc_id
                         /\ \E d \in Drivers.rows : d.DriverID = driver_id
                 THEN [err |-> TRUE, rows |-> rows]
                 ELSE [err |-> FALSE,
                       rows |-> rows \cup
                                  {[ShipmentID |-> key,
                                    OriginLocationID |-> origin_loc_id,
                                    DestinationLocationID |-> dest_loc_id,
                                    DriverID |-> driver_id]}]

quantity_of_df0 == IF df0 = << >> THEN 1 ELSE df0[1].product_quantity

\* Quantity is not in df1: the line-item loop sets it to 1.
quantity == 1

\* INSERT INTO ShipmentLineItems: a NULL ShipmentID breaks NOT NULL; the
\* foreign keys are looked at only when the pragma is on; the new row takes
\* the next AUTOINCREMENT value.
insert_line_item(tbl, shipment_id, product_id, qty, on_time_status) ==
    IF \/ shipment_id = NaN
       \/ foreign_keys /\ ~ \E s \in Shipments : s.ShipmentID = shipment_id
    THEN [err |-> TRUE, tbl |-> tbl]
    ELSE [err |-> FALSE,
          tbl |-> [rows |-> tbl.rows \cup
                              {[LineItemID |-> tbl.seq + 1,
                                ShipmentID |-> shipment_id,
                                ProductID |-> product_id,
                                Quantity |-> qty,
                                OnTimeStatus |-> on_time_status]},
                   seq  |-> tbl.seq + 1]]

on_row_error_uncaught(next_pc) == "aborted"

\* except sqlite3.IntegrityError / except Exception: the error is printed,
\* the transaction rolled back and the loop goes on.
on_row_error(next_pc) == next_pc

-----------------------------------------------------------------------------
(* The run.                                                                 *)

Init ==
    /\ df0 \in TablesA
    /\ df1 \in BoundedSeq(RowsB, MaxRowsB)
    /\ df2 \in BoundedSeq(RowsC, MaxRowsC)
    /\ pc = "products"
    /\ Products = EmptyTable
    /\ Locations = EmptyTable
    /\ Drivers = EmptyTable
    /\ Shipments = {}
    /\ ShipmentLineItems = EmptyTable
    /\ i2 = 1
    /\ i1 = 1
    /\ log = << >>

ShipmentsPc == IF i2 <= Len(unique_shipments_df2) THEN "shipments"
               ELSE IF i1 <= Len(line_item_rows) THEN "line_items" ELSE "close"

\* Products loop and its commit; an error in the loop is not caught: the run
\* dies and the uncommitted rows are lost.
PopulateProducts ==
    /\ pc = "products"
    /\ LET r == populate_products(Products, all_products)
       IN IF r.err
          THEN /\ pc' = "aborted"
               /\ UNCHANGED Products
          ELSE /\ pc' = "locations"
               /\ Products' = r.tbl
    /\ UNCHANGED <<df0, df1, df2, Locations, Drivers, Shipments,
                   ShipmentLineItems, i2, i1, log>>

PopulateLocations ==
    /\ pc = "locations"
    /\ LET r == populate_locations(Locations, all_locations)
       IN IF r.err
          THEN /\ pc' = "aborted"
               /\ UNCHANGED Locations
          ELSE /\ pc' = "drivers"
               /\ Locations' = r.tbl
    /\ UNCHANGED <<df0, df1, df2, Products, Drivers, Shipments,
                   ShipmentLineItems, i2, i1, log>>

PopulateDrivers ==
    /\ pc = "drivers"
    /\ LET r == populate_drivers(Drivers, all_drivers)
       IN IF r.err
          THEN /\ pc' = "aborted"
               /\ UNCHANGED Drivers
          ELSE /\ pc' = ShipmentsPc
               /\ Drivers' = r.tbl
    /\ UNCHANGED <<df0, df1, df2, Products, Locations, Shipments,
                   ShipmentLineItems, i2, i1, log>>

\* One iteration of the loop over unique_shipments_df2, with its commit or
\* its rollback.
InsertShipment ==
    /\ pc = "shipments"
    /\ i2 <= Len(unique_shipments_df2)
    /\ LET row_s2 == unique_shipments_df2[i2]
           shipment_id == row_s2.shipment_identifier
           origin == get_or_insert_location(Locations, row_s2.origin_warehouse)
           dest == get_or_insert_location(origin.tbl, row_s2.destination_store)
           driver == get_or_insert_driver(Drivers, row_s2.driver_identifier)
           ins == insert_or_ignore_shipment(Shipments, shipment_id, origin.id,
                                            dest.id, driver.id)
           next_pc == IF i2 + 1 <= Len(unique_shipments_df2) THEN "shipments"
                      ELSE IF i1 <= Len(line_item_rows) THEN "line_items"
                      ELSE "close"
       IN IF origin.err \/ dest.err \/ driver.err \/ ins.err
          THEN /\ log' = Append(log, [src |-> "s2", shipment |-> shipment_id])
               /\ pc' = on_row_error(next_pc)
               /\ UNCHANGED <<Locations, Drivers, Shipments>>
          ELSE /\ Locations' = dest.tbl
               /\ Drivers' = driver.tbl
               /\ Shipments' = ins.rows
               /\ pc' = next_pc
               /\ UNCHANGED log
    /\ i2' = i2 + 1
    /\ UNCHANGED <<df0, df1, df2, Products, ShipmentLineItems, i1>>

\* One iteration of the loop over df1, with its commit or its rollback.
InsertLineItem ==
    /\ pc = "line_items"
    /\ i1 <= Len(line_item_rows)
    /\ LET row_s1 == line_item_rows[i1]
           shipment_id == row_s1.shipment_identifier
           product == get_or_insert_product(Products, row_s1.product)
           on_time_status == row_s1.on_time
           ins == insert_line_item(ShipmentLineItems, shipment_id, product.id,
                                   quantity, on_time_status)
           next_pc == IF i1 + 1 <= Len(line_item_rows) THEN "line_items"
                      ELSE "close"
       IN IF product.err \/ ins.err
          THEN /\ log' = Append(log, [src |-> "s1", shipment |-> shipment_id])
               /\ pc' = on_row_error(next_pc)
               /\ UNCHANGED <<Products, ShipmentLineItems>>
          ELSE /\ Products' = product.tbl
               /\ ShipmentLineItems' = ins.tbl
               /\ pc' = next_pc
               /\ UNCHANGED log
    /\ i1' = i1 + 1
    /\ UNCHANGED <<df0, df1, df2, Locations, Drivers, Shipments, i2>>

\* conn.close() at the end of populate_database.
Close ==
    /\ pc = "close"
    /\ pc' = "done"
    /\ UNCHANGED <<df0, df1, df2, Products, Locations, Drivers, Shipments,
                   ShipmentLineItems, i2, i1, log>>

Next ==
    \/ PopulateProducts
    \/ PopulateLocations
    \/ PopulateDrivers
    \/ InsertShipment
    \/ InsertLineItem
    \/ Close

Spec == Init /\ [][Next]_vars

-----------------------------------------------------------------------------
(* Properties.                                                              *)

HasProduct(n) == \E r \in Products.rows : r.ProductName = n

HasLocation(n) == \E r \in Locations.rows : r.LocationName = n

HasDriver(n) == \E r \in Drivers.rows : r.DriverIdentifier = n

ProductIdOf(n) == (CHOOSE r \in Products.rows : r.ProductName = n).ProductID

LocationIdOf(n) == (CHOOSE r \in Locations.rows : r.LocationName = n).LocationID

DriverIdOf(n) == (CHOOSE r \in Drivers.rows : r.DriverIdentifier = n).DriverID

RowErrors(src) == { k \in 1..Len(log) : log[k].src = src }

\* C1: in every reachable state no two rows of Products share a ProductName,
\* no two rows of Locations share a LocationName and no two rows of Drivers
\* share a DriverIdentifier.
C1_UniqueNames ==
    /\ \A r, q \in Products.rows : r.ProductName = q.ProductName => r = q
    /\ \A r, q \in Locations.rows : r.LocationName = q.LocationName => r = q
    /\ \A r, q \in Drivers.rows : r.DriverIdentifier = q.DriverIdentifier => r = q

\* A finished load in which a product name and a location name occurred more
\* than once in the input columns and each entity table holds several rows.
C1_Witness ==
    /\ pc = "done"
    /\ Len(all_products) < Len(df0) + Len(df1)
    /\ Len(all_locations) < 2 * Len(df0) + 2 * Len(df2)
    /\ Cardinality(Products.rows) >= 2
    /\ Cardinality(Locations.rows) >= 2
    /\ Cardinality(Drivers.rows) >= 2

\* C2: for each entity kind and every name n, resolving n twice in a row
\* succeeds both times with the same identifier, which is that of the row
\* named n; the second resolution leaves the table as the first left it, and
\* the first adds a row exactly when no row named n existed.
C2_ResolveTwice ==
    /\ \A n \in ProductNames :
         LET r1 == get_or_insert_product(Products, n)
             r2 == get_or_insert_product(r1.tbl, n)
         IN /\ ~ r1.err /\ ~ r2.err
            /\ r2.id = r1.id
            /\ r2.tbl = r1.tbl
            /\ [ProductID |-> r1.id, ProductName |-> n] \in r1.tbl.rows
            /\ (r1.tbl # Products) <=> ~ HasProduct(n)
    /\ \A n \in LocationNames :
         LET r1 == get_or_insert_location(Locations, n)
             r2 == get_or_insert_location(r1.tbl, n)
         IN /\ ~ r1.err /\ ~ r2.err
            /\ r2.id = r1.id
            /\ r2.tbl = r1.tbl
            /\ [LocationID |-> r1.id, LocationName |-> n] \in r1.tbl.rows
            /\ (r1.tbl # Locations) <=> ~ HasLocation(n)
    /\ \A n \in DriverNames :
         LET r1 == get_or_insert_driver(Drivers, n)
             r2 == get_or_insert_driver(r1.tbl, n)
         IN /\ ~ r1.err /\ ~ r2.err
            /\ r2.id = r1.id
            /\ r2.tbl = r1.tbl
            /\ [DriverID |-> r1.id, DriverIdentifier |-> n] \in r1.tbl.rows
            /\ (r1.tbl # Drivers) <=> ~ HasDriver(n)

\* A populated store in which, for each kind, some name is present (the first
\* resolution finds it) and some name is absent (the first resolution inserts).
C2_Witness ==
    /\ pc = "done"
    /\ \E n, m \in ProductNames : HasProduct(n) /\ ~ HasProduct(m)
    /\ \E n, m \in LocationNames : HasLocation(n) /\ ~ HasLocation(m)
    /\ \E n, m \in DriverNames : HasDriver(n) /\ ~ HasDriver(m)

\* C3: after the load, for every shipment identifier s occurring in table C,
\* Shipments holds exactly one row with ShipmentID s, carrying the origin,
\* destination and driver of the first row of table C with s, and no row of
\* table C with such an identifier was reported as an error.
C3_FirstOccurrenceWins ==
    pc = "done" =>
      \A k \in 1..Len(df2) :
        LET s == df2[k].shipment_identifier
        IN (s \in ShipIds /\ \A j \in 1..(k - 1) : df2[j].shipment_identifier # s)
           => /\ Cardinality({ sh \in Shipments : sh.ShipmentID = s }) = 1
              /\ \A sh \in Shipments :
                   sh.ShipmentID = s =>
                     /\ sh.OriginLocationID = LocationIdOf(df2[k].origin_warehouse)
                     /\ sh.DestinationLocationID =
                          LocationIdOf(df2[k].destination_store)
                     /\ sh.DriverID = DriverIdOf(df2[k].driver_identifier)
              /\ \A e \in RowErrors("s2") : log[e].shipment # s

\* C4: after every step, each Shipments row refers to existing Locations rows
\* and an existing Drivers row, and a row added by the step refers to the rows
\* named by the origin, destination and driver of the table-C row the step
\* processed.
C4_ShipmentForeignKeys ==
    [][ \A sh \in Shipments' :
          /\ \E l \in Locations'.rows : l.LocationID = sh.OriginLocationID
          /\ \E l \in Locations'.rows : l.LocationID = sh.DestinationLocationID
          /\ \E d \in Drivers'.rows : d.DriverID = sh.DriverID
          /\ sh \notin Shipments =>
               LET row == unique_shipments_df2[i2]
               IN /\ pc = "shipments"
                  /\ [LocationID |-> sh.OriginLocationID,
                      LocationName |-> row.origin_warehouse] \in Locations'.rows
                  /\ [LocationID |-> sh.DestinationLocationID,
                      LocationName |-> row.destination_store] \in Locations'.rows
                  /\ [DriverID |-> sh.DriverID,
                      DriverIdentifier |-> row.driver_identifier] \in Drivers'.rows
      ]_vars

\* A finished load with two shipments of different origins.
C4_Witness ==
    /\ pc = "done"
    /\ \E sh, th \in Shipments : sh.OriginLocationID # th.OriginLocationID

\* C5: after a load without a row-level error in the line-item pass,
\* ShipmentLineItems has as many rows as table B has records, and for every
\* (shipment identifier, product, on_time) the rows with that shipment, that
\* product's id and that status are as many as the records of table B with it.
C5_NoLineItemDeduplication ==
    (pc = "done" /\ RowErrors("s1") = {}) =>
      /\ Cardinality(ShipmentLineItems.rows) = Len(df1)
      /\ \A b \in RowsB :
           Cardinality({ li \in ShipmentLineItems.rows :
                           /\ li.ShipmentID = b.shipment_identifier
                           /\ [ProductID |-> li.ProductID,
                               ProductName |-> b.product] \in Products.rows
                           /\ li.OnTimeStatus = b.on_time })
           = Cardinality({ k \in 1..Len(df1) : df1[k] = b })

\* A finished load without line-item errors whose table B repeats a record.
C5_Witness ==
    /\ pc = "done"
    /\ RowErrors("s1") = {}
    /\ Len(df1) >= 2
    /\ df1[1] = df1[2]
    /\ Cardinality(ShipmentLineItems.rows) >= 2

\* C6: every row of ShipmentLineItems has Quantity 1.
C6_QuantityIsOne == \A li \in ShipmentLineItems.rows : li.Quantity = 1

\* A line item exists while table A carries a product_quantity of 5.
C6_Witness ==
    /\ ShipmentLineItems.rows # {}
    /\ df0 # << >>
    /\ df0[1].product_quantity = 5

Scenario ==
    /\ df0 = << RowA("WH1", "ST1", "Widget", "Yes", 5, "D1") >>
    /\ df2 = << RowC(100, "WH1", "ST1", "D1") >>
    /\ df1 = << RowB(100, "Widget", "Yes") >>

\* C7: the end-to-end scenario ends with Products = {Widget}, Locations =
\* {WH1, ST1}, Drivers = {D1}, the one shipment (100, WH1, ST1, D1) and the one
\* line item (100, Widget, 1, Yes).
C7_EndToEnd ==
    (Scenario /\ pc = "done") =>
      /\ { r.ProductName : r \in Products.rows } = {"Widget"}
      /\ Cardinality(Products.rows) = 1
      /\ { r.LocationName : r \in Locations.rows } = {"WH1", "ST1"}
      /\ Cardinality(Locations.rows) = 2
      /\ { r.DriverIdentifier : r \in Drivers.rows } = {"D1"}
      /\ Cardinality(Drivers.rows) = 1
      /\ Shipments = {[ShipmentID |-> 100,
                       OriginLocationID |-> LocationIdOf("WH1"),
                       DestinationLocationID |-> LocationIdOf("ST1"),
                       DriverID |-> DriverIdOf("D1")]}
      /\ Cardinality(ShipmentLineItems.rows) = 1
      /\ \A li \in ShipmentLineItems.rows :
           /\ li.ShipmentID = 100
           /\ li.ProductID = ProductIdOf("Widget")
           /\ li.Quantity = 1
           /\ li.OnTimeStatus = "Yes"
      /\ log = << >>

\* The scenario's load has finished.
C7_Witness == Scenario /\ pc = "done"

\* C8: after the load, every record of table B whose shipment identifier
\* occurs in no row of table C has a ShipmentLineItems row, and that row's
\* ShipmentID matches no Shipments row.
C8_DanglingLineItems ==
    pc = "done" =>
      \A k \in 1..Len(df1) :
        LET s == df1[k].shipment_identifier
        IN (s \in ShipIds /\ \A j \in 1..Len(df2) : df2[j].shipment_identifier # s)
           => /\ \E li \in ShipmentLineItems.rows : li.ShipmentID = s
              /\ \A sh \in Shipments : sh.ShipmentID # s

\* C9: a step that reports a row-level error leaves all five tables as they
\* were, moves on to the next row and does not abort; and a finished load has
\* gone through every row of both passes, each line-item record having
\* produced either a row or an error.
C9_RowErrorContained ==
    /\ [][ log' # log =>
             /\ UNCHANGED <<Products, Locations, Drivers, Shipments,
                            ShipmentLineItems>>
             /\ pc' \in {"shipments", "line_items", "close"}
             /\ \/ pc = "shipments" /\ i2' = i2 + 1 /\ i1' = i1
                \/ pc = "line_items" /\ i1' = i1 + 1 /\ i2' = i2
         ]_vars
    /\ [](pc = "done" =>
            /\ i2 = Len(unique_shipments_df2) + 1
            /\ i1 = Len(df1) + 1
            /\ Cardinality(ShipmentLineItems.rows)
                 + Cardinality(RowErrors("s1")) = Len(df1))

\* A finished load whose first table-C row and first table-B row failed and
\* whose later rows were inserted.
C9_Witness ==
    /\ pc = "done"
    /\ RowErrors("s2") # {}
    /\ RowErrors("s1") # {}
    /\ df2[1].shipment_identifier = NonInt
    /\ df1[1].shipment_identifier = NaN
    /\ Shipments # {}
    /\ ShipmentLineItems.rows # {}

\* C10: no step of the shipment pass or of the line-item pass changes
\* Products, Locations or Drivers.
C10_EntityTablesFrozen ==
    [][ (pc \in {"shipments", "line_items", "close"}) =>
          /\ Products' = Products
          /\ Locations' = Locations
          /\ Drivers' = Drivers
      ]_vars

\* A finished load that inserted a shipment and a line item.
C10_Witness ==
    /\ pc = "done"
    /\ Shipments # {}
    /\ ShipmentLineItems.rows # {}
    /\ df0 = << >>

====
